---- MODULE Spec2Model ----
(***************************************************************************)
(* A model of zbus' connection layer:                                      *)
(*   - the raw framing connection (zbus/src/connection/raw/connection.rs): *)
(*     the outbound queue with try_flush, and the inbound frame assembly   *)
(*     of try_receive_message;                                             *)
(*   - the async facade (zbus/src/azync/connection.rs): serial numbers,    *)
(*     the incoming queue, receive_specific, call_method, Stream and Sink. *)
(* The specifications share the variables: SpecRawOut (outbound half of a  *)
(* raw connection, driven directly and through a Sink), SpecRawIn and      *)
(* SpecRawInBuffered (inbound half, without and with bytes left over by    *)
(* the handshake), Spec (the facade, several tasks on clones of one        *)
(* connection), SpecSend (tasks that only stamp and send), SpecWire        *)
(* (send_message down to the socket), SpecClose (stream and                *)
(* receive_specific over the raw inbound half), SpecHello                  *)
(* (Connection::new with the bus Hello), SpecCancel (futures dropped while *)
(* they wait for the socket), SpecNoStream (the facade without stream())   *)
(* and SpecCalls (concurrent call_method calls, with fairness).            *)
(***************************************************************************)
EXTENDS Integers, Sequences, FiniteSets, TLC

VARIABLES
    \* ---- raw connection, outbound half ----
    outbound,      \* OutBound { pos, msgs }
    wire,          \* the bytes the socket has accepted so far, in order
    enqueued,      \* history: the messages pushed to outbound.msgs, in order
    offered,       \* history: number of messages handed to enqueue/start_send
    refused,       \* history: ids of the messages start_send refused
    pcOut,         \* position inside try_flush: "idle" or "loop"
    flushRes,      \* what the last try_flush call returned ("none" while one
                   \* runs and once a message was enqueued after it)
    sinkRes,       \* what the last Sink::start_send call returned
    cap_unix_fd,   \* ConnectionInner.cap_unix_fd / Sink.cap_unix_fd
    lastSend,      \* the last poll_sendmsg call of the current or last try_flush:
                   \* the head message, outbound.pos and the fds passed
    sentFds,       \* history: the fds the socket accepted, with message and pos
    \* ---- raw connection, inbound half ----
    inbound,       \* InBound { buffer, fds, pos, prev_seq }
    sock,          \* the peer's byte stream and how much of it was read
    pcIn,          \* position inside try_receive_message
    recvRes,       \* what the last try_receive_message call returned
    lastRead,      \* byte count of the last poll_recvmsg that was Ready(Ok) in
                   \* the current or last try_receive_message call (-1: none)
    yielded,       \* history: the messages try_receive_message returned
    recvErrs,      \* history: the errors try_receive_message returned
    \* ---- async facade ----
    serial,        \* ConnectionInner.serial
    incoming_queue,\* ConnectionInner.incoming_queue
    max_queued,    \* ConnectionInner.max_queued
    lock,          \* holder of each async Mutex (0: free)
    task,          \* per task: the operation it runs, its position, its locals
    ev,            \* history: what the last step handed out, queued or dropped
                   \* (NoEvent after any other step)
    in_seq,        \* messages the inbound framer has produced (its prev_seq)
    handed,        \* history: the serials next_serial has returned, in order
    dropped,       \* history: the seq of every message receive_specific dropped
    \* ---- construction of the facade ----
    bus_conn,      \* ConnectionInner.bus_conn
    unique_name,   \* ConnectionInner.unique_name (NoName: the cell is empty)
    newPc,         \* position inside Connection::new: "new", "hello" (inside
                   \* hello_bus), "returned" (Ok(connection)) or "failed" (Err)
    helloReply,    \* history: the string the Hello call returned (NoName: none)
    \* ---- dropped futures ----
    cancelled,     \* history: "send" / "receive" once a sending / receiving
                   \* future was dropped after a partial write / read
    \* ---- the peer ----
    replied        \* the serials of the calls the peer has replied to

rawOutVars == <<outbound, wire, enqueued, offered, refused, pcOut, flushRes, sinkRes, cap_unix_fd,
               lastSend, sentFds>>

rawInVars == <<inbound, sock, pcIn, recvRes, lastRead, yielded, recvErrs>>

connVars == <<serial, incoming_queue, max_queued, lock, task, ev, in_seq, handed, dropped>>

helloVars == <<bus_conn, unique_name, newPc, helloReply>>

vars == <<rawOutVars, rawInVars, connVars, helloVars, cancelled, replied>>

(***************************************************************************)
(* Bounds of the model.                                                    *)
(***************************************************************************)
\* longest as_bytes() of an outbound message
MaxMsgLen == 3

\* number of messages handed to enqueue_message / start_send in one run
MaxOffered == 3

(***************************************************************************)
(* Generic helpers.                                                        *)
(***************************************************************************)
Min(a, b) == IF a <= b THEN a ELSE b

RECURSIVE Flatten(_)
Flatten(ss) == IF ss = <<>> THEN <<>> ELSE Head(ss) \o Flatten(Tail(ss))

Drop(s, n) == SubSeq(s, n + 1, Len(s))

Take(s, n) == SubSeq(s, 1, n)

(***************************************************************************)
(* Raw connection: outbound half.                                          *)
(***************************************************************************)
\* An outbound Message: an identity, the length of its encoding and its fds.
OutMessages(id) == [id : {id}, len : 1..MaxMsgLen, fds : {<<>>, <<"fd">>}]

\* Message::as_bytes(): the encoding, each byte tagged with its message
\* and its offset so that a lost, repeated or reordered byte shows.
AsBytes(m) == [i \in 1..m.len |-> <<m.id, i>>]

\* Connection::new, outbound part: pos 0 and an empty queue.
OutBoundNew == [pos |-> 0, msgs |-> <<>>]

\* variant: push_front
EnqueueMessageFront(ob, m) == [ob EXCEPT !.msgs = <<m>> \o @]

\* Connection::enqueue_message: push_back, no I/O and no validation.
EnqueueMessage(ob, m) == [ob EXCEPT !.msgs = Append(@, m)]

\* raw use: enqueue_message(msg) between two try_flush calls
Enqueue ==
    /\ pcOut = "idle"
    /\ offered < MaxOffered
    /\ \E m \in OutMessages(offered + 1) :
         /\ outbound' = EnqueueMessage(outbound, m)
         /\ enqueued' = Append(enqueued, m)
    /\ offered' = offered + 1
    /\ flushRes' = "none"
    /\ UNCHANGED <<wire, refused, pcOut, sinkRes, cap_unix_fd, lastSend, sentFds>>
    /\ UNCHANGED <<rawInVars, connVars>>
    /\ UNCHANGED helloVars
    /\ UNCHANGED cancelled
    /\ UNCHANGED replied

\* variant: the capability is not consulted, any message with fds is refused
StartSendRefusesAnyFds(m, cap) == m.fds # <<>>

\* Sink::start_send's refusal test: fds on a connection without fd passing
StartSendRefuses(m, cap) == m.fds # <<>> /\ ~cap

\* Sink::start_send: Unsupported for a message with fds when cap_unix_fd is
\* false, otherwise enqueue_message
SinkStartSend ==
    /\ pcOut = "idle"
    /\ offered < MaxOffered
    /\ \E m \in OutMessages(offered + 1) :
         IF StartSendRefuses(m, cap_unix_fd)
         THEN /\ sinkRes' = [msg |-> m, res |-> "Unsupported"]
              /\ refused' = refused \cup {m.id}
              /\ UNCHANGED <<outbound, enqueued>>
         ELSE /\ sinkRes' = [msg |-> m, res |-> "Ok"]
              /\ outbound' = EnqueueMessage(outbound, m)
              /\ enqueued' = Append(enqueued, m)
              /\ UNCHANGED refused
    /\ offered' = offered + 1
    /\ flushRes' = "none"
    /\ UNCHANGED <<wire, pcOut, cap_unix_fd, lastSend, sentFds>>
    /\ UNCHANGED <<rawInVars, connVars>>
    /\ UNCHANGED helloVars
    /\ UNCHANGED cancelled
    /\ UNCHANGED replied

\* no poll_sendmsg call yet
NoSend == [id |-> 0, pos |-> 0, fds |-> <<>>]

\* try_flush is entered: the activity event is notified, the loop starts
TryFlush ==
    /\ pcOut = "idle"
    /\ pcOut' = "loop"
    /\ flushRes' = "none"
    /\ lastSend' = NoSend
    /\ UNCHANGED <<outbound, wire, enqueued, offered, refused, sinkRes, cap_unix_fd, sentFds>>
    /\ UNCHANGED <<rawInVars, connVars>>
    /\ UNCHANGED helloVars
    /\ UNCHANGED cancelled
    /\ UNCHANGED replied

\* data = &msg.as_bytes()[self.outbound.pos..] of the head message
FlushData(ob) == Drop(AsBytes(Head(ob.msgs)), ob.pos)

\* the head is written out: pos = 0, pop_front
FlushPop ==
    /\ pcOut = "loop"
    /\ outbound.msgs # <<>>
    /\ FlushData(outbound) = <<>>
    /\ outbound' = [pos |-> 0, msgs |-> Tail(outbound.msgs)]
    /\ UNCHANGED <<wire, enqueued, offered, refused, pcOut, flushRes, sinkRes, cap_unix_fd,
                   lastSend, sentFds>>
    /\ UNCHANGED <<rawInVars, connVars>>
    /\ UNCHANGED helloVars
    /\ UNCHANGED cancelled
    /\ UNCHANGED replied

\* variant: pos = n instead of pos += n
FlushAdvanceAssign(ob, n) == [ob EXCEPT !.pos = n]

\* outbound.pos += n, for a poll_sendmsg that accepted n bytes
FlushAdvance(ob, n) == [ob EXCEPT !.pos = @ + n]

\* variant: the fds are passed with every chunk
FlushFdsEveryChunk(ob) == Head(ob.msgs).fds

\* let fds = if self.outbound.pos == 0 { msg.fds() } else { vec![] }
FlushFds(ob) == IF ob.pos = 0 THEN Head(ob.msgs).fds ELSE <<>>

\* poll_sendmsg(data, fds) on the unwritten rest of the head: Pending, an
\* error, or n >= 1 of the offered bytes accepted, the fds with them
FlushSend ==
    /\ pcOut = "loop"
    /\ outbound.msgs # <<>>
    /\ FlushData(outbound) # <<>>
    /\ lastSend' = [id |-> Head(outbound.msgs).id, pos |-> outbound.pos, fds |-> FlushFds(outbound)]
    /\ \/ /\ pcOut' = "idle"
          /\ flushRes' = "Pending"
          /\ UNCHANGED <<outbound, wire, sentFds>>
       \/ /\ pcOut' = "idle"
          /\ flushRes' = "Err"
          /\ UNCHANGED <<outbound, wire, sentFds>>
       \/ \E n \in 1..Len(FlushData(outbound)) :
            /\ wire' = wire \o Take(FlushData(outbound), n)
            /\ sentFds' = IF FlushFds(outbound) = <<>> THEN sentFds
                          ELSE Append(sentFds, [id |-> Head(outbound.msgs).id, pos |-> outbound.pos])
            /\ outbound' = FlushAdvance(outbound, n)
            /\ UNCHANGED <<pcOut, flushRes>>
    /\ UNCHANGED <<enqueued, offered, refused, sinkRes, cap_unix_fd>>
    /\ UNCHANGED <<rawInVars, connVars>>
    /\ UNCHANGED helloVars
    /\ UNCHANGED cancelled
    /\ UNCHANGED replied

\* the queue is empty: Poll::Ready(Ok(()))
FlushDone ==
    /\ pcOut = "loop"
    /\ outbound.msgs = <<>>
    /\ pcOut' = "idle"
    /\ flushRes' = "Ok"
    /\ UNCHANGED <<outbound, wire, enqueued, offered, refused, sinkRes, cap_unix_fd,
                   lastSend, sentFds>>
    /\ UNCHANGED <<rawInVars, connVars>>
    /\ UNCHANGED helloVars
    /\ UNCHANGED cancelled
    /\ UNCHANGED replied

(***************************************************************************)
(* Raw connection: inbound half.                                           *)
(***************************************************************************)
\* message::header::MIN_MESSAGE_SIZE: the primary header
MIN_MESSAGE_SIZE == 16

\* message::header::MAX_MESSAGE_SIZE: 128 MiB
MAX_MESSAGE_SIZE == 134217728

\* largest fields_len of the frames the peer sends
MaxFields == 1

\* largest body_len of the (acceptable) frames the peer sends
MaxBody == 1

\* longest raw_in_buffer handed to Connection::new
MaxBuffered == 40

\* a u32 as four bytes, least significant first
U32LE(n) == <<n % 256, (n \div 256) % 256, (n \div 65536) % 256, (n \div 16777216) % 256>>

\* four bytes at offset off (0-based) read as a u32, in the given byte order
ReadU32(b, off, little) ==
    IF little
    THEN b[off + 1] + 256 * b[off + 2] + 65536 * b[off + 3] + 16777216 * b[off + 4]
    ELSE b[off + 4] + 256 * b[off + 3] + 65536 * b[off + 2] + 16777216 * b[off + 1]

\* PrimaryHeader::read on the first 16 bytes: the endian signature ('l' or
\* 'B'), body_len at offset 4, fields_len at offset 12; any other signature
\* is an error
PrimaryHeaderRead(b) ==
    IF b[1] \notin {108, 66}
    THEN [ok |-> FALSE, body_len |-> 0, fields_len |-> 0]
    ELSE [ok |-> TRUE,
          body_len |-> ReadU32(b, 4, b[1] = 108),
          fields_len |-> ReadU32(b, 12, b[1] = 108)]

\* utils::padding_for_8_bytes
padding_for_8_bytes(n) == (8 - (n % 8)) % 8

\* total_len = header_len + body_padding + body_len
TotalLen(h) ==
    LET header_len == MIN_MESSAGE_SIZE + h.fields_len
    IN  header_len + padding_for_8_bytes(header_len) + h.body_len

\* variant: total_len >= MAX_MESSAGE_SIZE
ExcessDataAtLimit(total_len) == total_len >= MAX_MESSAGE_SIZE

\* total_len > MAX_MESSAGE_SIZE: the frame is refused with ExcessData
ExcessData(total_len) == total_len > MAX_MESSAGE_SIZE

\* variant: the buffer is cleared before it is resized
ResizeCleared(buf, n) == [len |-> n, data |-> <<>>]

\* Vec<u8> of the inbound buffer: its length and the bytes written into it.
\* The zeros resize() fills in are never read before a recv overwrites them,
\* so they are not stored: data holds the first Min(pos, len) bytes.
Resize(buf, n) ==
    [len |-> n, data |-> IF Len(buf.data) > n THEN Take(buf.data, n) ELSE buf.data]

\* Connection::new, inbound part: pos = raw_in_buffer.len()
InBoundNew(raw_in_buffer) ==
    [buffer |-> [len |-> Len(raw_in_buffer), data |-> raw_in_buffer],
     fds |-> <<>>, pos |-> Len(raw_in_buffer), prev_seq |-> 0]

\* ---- what the peer sends ----
\* a little-endian frame: primary header (serial = tag), fields, padding, body
Frame(tag, fields_len, body_len) ==
    <<108, 1, 0, 1>> \o U32LE(body_len) \o U32LE(tag) \o U32LE(fields_len)
      \o [i \in 1..fields_len |-> 32 * tag + i]
      \o [i \in 1..padding_for_8_bytes(MIN_MESSAGE_SIZE + fields_len) |-> 0]
      \o [i \in 1..body_len |-> 32 * tag + 16 + i]

\* the same frame with a big-endian header
FrameBE(tag, fields_len, body_len) ==
    LET f == Frame(tag, fields_len, body_len)
    IN  [i \in 1..Len(f) |->
           IF i = 1 THEN 66
           ELSE IF i \in 5..16 THEN f[4 * ((i - 1) \div 4) + (3 - ((i - 1) % 4)) + 1]
           ELSE f[i]]

\* only the primary header of a frame of the given declared body length
HeaderOnly(tag, body_len) == <<108, 1, 0, 1>> \o U32LE(body_len) \o U32LE(tag) \o U32LE(0)

WellFormedFrames(tag) ==
    { Frame(tag, f, b) : f \in 0..MaxFields, b \in 0..MaxBody } \cup { FrameBE(tag, MaxFields, MaxBody) }

\* the byte streams a run may see: two well-formed frames, possibly cut
\* short; a header that declares MAX_MESSAGE_SIZE + 1 bytes; a header that
\* declares exactly MAX_MESSAGE_SIZE bytes; a header with a bad signature
Streams ==
    { a \o b : a \in WellFormedFrames(1), b \in WellFormedFrames(2) }
      \cup { Take(a \o b, Len(a) + 3) : a \in WellFormedFrames(1), b \in WellFormedFrames(2) }
      \cup { Take(Frame(1, MaxFields, MaxBody), 20) }
      \cup { Frame(1, 0, 0) \o HeaderOnly(2, MAX_MESSAGE_SIZE - MIN_MESSAGE_SIZE + 1) \o <<7, 7>> }
      \cup { HeaderOnly(1, MAX_MESSAGE_SIZE - MIN_MESSAGE_SIZE) \o <<7, 7>> }
      \cup { <<0>> \o Tail(Frame(1, 0, 0)) }

\* stream offsets at which the peer attaches a file descriptor
FdOffsets == { {}, {1, 18} }

\* the fds that arrive with the bytes off+1 .. off+n of the stream
RECURSIVE FdsIn(_, _, _)
FdsIn(at, off, n) ==
    IF n = 0 THEN <<>>
    ELSE (IF off + 1 \in at THEN <<off + 1>> ELSE <<>>) \o FdsIn(at, off + 1, n - 1)

\* Socket::poll_recvmsg into a buffer of req bytes: Pending, an error, or
\* n bytes (1 <= n <= req, no more than the peer has sent) with the fds that
\* came with them; 0 bytes once the peer has sent everything and closed
RecvOutcomes(sk, req) ==
    LET avail == Len(sk.stream) - sk.off
    IN  (IF sk.eof THEN {} ELSE {[kind |-> "Pending", n |-> 0]})
          \cup {[kind |-> "Err", n |-> 0]}
          \cup {[kind |-> "Ok", n |-> n] : n \in 1..Min(req, avail)}
          \cup (IF avail = 0 THEN {[kind |-> "Ok", n |-> 0]} ELSE {})

\* the socket after a read of n bytes (n = 0: the peer has closed)
SockAfter(sk, n) == [sk EXCEPT !.off = @ + n, !.eof = (n = 0)]

\* variant: the slice handed to poll_recvmsg is one byte longer
RecvRequestOneMore(ib) == ib.buffer.len - ib.pos + 1

\* &mut self.inbound.buffer[self.inbound.pos..]: the length of the slice
\* handed to poll_recvmsg
RecvRequest(ib) == ib.buffer.len - ib.pos

\* variant: the fds of a recv replace those received before
RecvIntoFdsReplaced(ib, bytes, fds) ==
    [ib EXCEPT !.buffer.data = Take(@, ib.pos) \o bytes,
               !.fds = fds,
               !.pos = @ + Len(bytes)]

\* variant: the bytes received are written at offset 0 of the buffer
RecvIntoRestart(ib, bytes, fds) ==
    [ib EXCEPT !.buffer.data = bytes,
               !.fds = @ \o fds,
               !.pos = @ + Len(bytes)]

\* poll_recvmsg(&mut buffer[pos..]) returned (n, fds): the bytes land at
\* offset pos, fds.extend(fds), pos += n
RecvInto(ib, bytes, fds) ==
    [ib EXCEPT !.buffer.data = Take(@, ib.pos) \o bytes,
               !.fds = @ \o fds,
               !.pos = @ + Len(bytes)]

\* what try_receive_message returns as Poll::Ready(Err(..))
ErrorResults == {"IoError", "UnexpectedEof", "InvalidHeader", "ExcessData"}

\* the errors returned so far, with the result res of the step just taken
Noted(errs, res) == IF res \in ErrorResults THEN errs \cup {res} ELSE errs

\* try_receive_message is entered: the event is notified; with less than a
\* primary header buffered the buffer is resized to MIN_MESSAGE_SIZE and the
\* header loop starts, otherwise the header is parsed (again)
TryReceiveMessage ==
    /\ pcIn = "idle"
    /\ recvRes' = "none"
    /\ IF inbound.pos < MIN_MESSAGE_SIZE
       THEN /\ inbound' = [inbound EXCEPT !.buffer = Resize(@, MIN_MESSAGE_SIZE)]
            /\ pcIn' = "header"
       ELSE /\ pcIn' = "parse"
            /\ UNCHANGED inbound
    /\ lastRead' = -1
    /\ UNCHANGED <<sock, yielded, recvErrs>>
    /\ UNCHANGED <<rawOutVars, connVars>>
    /\ UNCHANGED helloVars
    /\ UNCHANGED cancelled
    /\ UNCHANGED replied

\* one turn of the header loop (while pos < MIN_MESSAGE_SIZE)
RecvHeader ==
    /\ pcIn = "header"
    /\ \E r \in RecvOutcomes(sock, RecvRequest(inbound)) :
         \/ /\ r.kind = "Pending"
            /\ pcIn' = "idle"
            /\ recvRes' = "Pending"
            /\ UNCHANGED <<inbound, sock, lastRead>>
         \/ /\ r.kind = "Err"
            /\ pcIn' = "idle"
            /\ recvRes' = "IoError"
            /\ UNCHANGED <<inbound, sock, lastRead>>
         \/ /\ r.kind = "Ok"
            /\ inbound' = RecvInto(inbound, SubSeq(sock.stream, sock.off + 1, sock.off + r.n),
                                   FdsIn(sock.fdAt, sock.off, r.n))
            /\ sock' = SockAfter(sock, r.n)
            /\ lastRead' = r.n
            /\ IF r.n = 0
               THEN pcIn' = "idle" /\ recvRes' = "UnexpectedEof"
               ELSE /\ pcIn' = IF inbound'.pos < MIN_MESSAGE_SIZE THEN "header" ELSE "parse"
                    /\ UNCHANGED recvRes
    /\ recvErrs' = Noted(recvErrs, recvRes')
    /\ UNCHANGED yielded
    /\ UNCHANGED <<rawOutVars, connVars>>
    /\ UNCHANGED helloVars
    /\ UNCHANGED cancelled
    /\ UNCHANGED replied

\* PrimaryHeader::read, total_len, the ExcessData test and the resize to
\* total_len
ParseHeader ==
    /\ pcIn = "parse"
    /\ LET h == PrimaryHeaderRead(inbound.buffer.data)
       IN  IF ~h.ok
           THEN pcIn' = "idle" /\ recvRes' = "InvalidHeader" /\ UNCHANGED inbound
           ELSE IF ExcessData(TotalLen(h))
           THEN pcIn' = "idle" /\ recvRes' = "ExcessData" /\ UNCHANGED inbound
           ELSE /\ inbound' = [inbound EXCEPT !.buffer = Resize(@, TotalLen(h))]
                /\ pcIn' = "body"
                /\ UNCHANGED recvRes
    /\ recvErrs' = Noted(recvErrs, recvRes')
    /\ UNCHANGED <<sock, lastRead, yielded>>
    /\ UNCHANGED <<rawOutVars, connVars>>
    /\ UNCHANGED helloVars
    /\ UNCHANGED cancelled
    /\ UNCHANGED replied

\* one turn of the body loop (while buffer.len() > pos): pos += read, with no
\* test of read = 0
RecvBody ==
    /\ pcIn = "body"
    /\ inbound.buffer.len > inbound.pos
    /\ \E r \in RecvOutcomes(sock, RecvRequest(inbound)) :
         \/ /\ r.kind = "Pending"
            /\ pcIn' = "idle"
            /\ recvRes' = "Pending"
            /\ UNCHANGED <<inbound, sock, lastRead>>
         \/ /\ r.kind = "Err"
            /\ pcIn' = "idle"
            /\ recvRes' = "IoError"
            /\ UNCHANGED <<inbound, sock, lastRead>>
         \/ /\ r.kind = "Ok"
            /\ inbound' = RecvInto(inbound, SubSeq(sock.stream, sock.off + 1, sock.off + r.n),
                                   FdsIn(sock.fdAt, sock.off, r.n))
            /\ sock' = SockAfter(sock, r.n)
            /\ lastRead' = r.n
            /\ UNCHANGED <<pcIn, recvRes>>
    /\ recvErrs' = Noted(recvErrs, recvRes')
    /\ UNCHANGED yielded
    /\ UNCHANGED <<rawOutVars, connVars>>
    /\ UNCHANGED helloVars
    /\ UNCHANGED cancelled
    /\ UNCHANGED replied

\* Message::from_raw_parts(bytes, fds, seq)
FromRawParts(bytes, fds, seq) == [bytes |-> bytes, fds |-> fds, seq |-> seq]

\* variant: seq is computed but not stored back into prev_seq
InBoundTakenSeqKept(ib) ==
    [buffer |-> [len |-> 0, data |-> <<>>], fds |-> <<>>, pos |-> 0,
     prev_seq |-> ib.prev_seq]

\* the inbound state left behind once the frame is complete: pos = 0, the
\* buffer and the fds taken, prev_seq advanced
InBoundTaken(ib) ==
    [buffer |-> [len |-> 0, data |-> <<>>], fds |-> <<>>, pos |-> 0,
     prev_seq |-> ib.prev_seq + 1]

\* the frame is complete: the message is returned
CompleteMessage ==
    /\ pcIn = "body"
    /\ ~(inbound.buffer.len > inbound.pos)
    /\ yielded' = Append(yielded,
                         FromRawParts(inbound.buffer.data, inbound.fds, inbound.prev_seq + 1))
    /\ inbound' = InBoundTaken(inbound)
    /\ pcIn' = "idle"
    /\ recvRes' = "Ok"
    /\ UNCHANGED <<sock, lastRead, recvErrs>>
    /\ UNCHANGED <<rawOutVars, connVars>>
    /\ UNCHANGED helloVars
    /\ UNCHANGED cancelled
    /\ UNCHANGED replied

(***************************************************************************)
(* The async facade: tasks on clones of one Connection.                    *)
(***************************************************************************)
\* number of tasks sharing the connection
NumTasks == 2

\* serial numbers handed out in one run
MaxSerial == 2

\* messages the inbound framer produces in one run
MaxRecv == 4

\* largest value given to set_max_queued
MaxCap == 2

\* crate::DEFAULT_MAX_QUEUED
DEFAULT_MAX_QUEUED == 64

Tasks == 1..NumTasks

\* no message (an empty Option<Message>)
NoMsg == [type |-> "none", reply_serial |-> 0, seq |-> 0]

\* what the peer may send: a method return for any serial, an error, a
\* signal without and one with a reply_serial; reply_serial 0 stands for None
PeerMessages ==
    [type : {"MethodReturn"}, reply_serial : 1..MaxSerial]
      \cup {[type |-> "Error", reply_serial |-> 1],
            [type |-> "Signal", reply_serial |-> 0],
            [type |-> "Signal", reply_serial |-> 1]}

\* predicates a caller passes to receive_specific: signals only, nothing
UserPredicates == {[kind |-> "signal", serial |-> 0]}

\* call_method's predicate: h.reply_serial()? == Some(serial)
ReplyPredicate(sn) == [kind |-> "reply", serial |-> sn]

Matches(pred, m) ==
    CASE pred.kind = "reply" -> m.reply_serial = pred.serial
      [] pred.kind = "signal" -> m.type = "Signal"
      [] OTHER -> FALSE

\* variant: the scan returns the last index that matches
LastMatch(q, pred) ==
    IF \E i \in 1..Len(q) : Matches(pred, q[i])
    THEN CHOOSE i \in 1..Len(q) :
           /\ Matches(pred, q[i])
           /\ \A j \in (i + 1)..Len(q) : ~Matches(pred, q[j])
    ELSE 0

\* for (i, msg) in queue.iter().enumerate(): the first index that matches
FirstMatch(q, pred) ==
    IF \E i \in 1..Len(q) : Matches(pred, q[i])
    THEN CHOOSE i \in 1..Len(q) :
           /\ Matches(pred, q[i])
           /\ \A j \in 1..(i - 1) : ~Matches(pred, q[j])
    ELSE 0

\* variant: Vec::truncate(i - 1)
RemoveTruncate(q, i) == Take(q, i - 1)

\* Vec::remove(i)
Remove(q, i) == Take(q, i - 1) \o Drop(q, i)

\* variant: a message that does not match is never queued
PushNever(q, m, cap) == q

\* variant: queue.len() <= max_queued
PushIfRoomOrFull(q, m, cap) == IF Len(q) <= cap THEN Append(q, m) ELSE q

\* else if queue.len() < *max_queued.read().await { queue.push(msg) }
PushIfRoom(q, m, cap) == IF Len(q) < cap THEN Append(q, m) ELSE q

\* variant: every message that is not an Error is returned as the reply
CallMethodArmAnyReply(m) ==
    CASE m.type = "Error" -> "MethodError"
      [] OTHER -> "Ok"

\* call_method's match on the type of the message receive_specific returned
CallMethodArm(m) ==
    CASE m.type = "Error" -> "MethodError"
      [] m.type = "MethodReturn" -> "Ok"
      [] OTHER -> "ignored"

\* variant: lock() completes whoever holds the mutex
MutexNeverHeld(name) == TRUE

\* async_lock::Mutex: lock() completes only while nobody holds the mutex
MutexFree(name) == lock[name] = 0

\* variant: next_serial without its mutex
SerialUnguarded == TRUE

\* the serial mutex of next_serial
SerialFree == MutexFree("serial")

Acquire(l, name, t) == [l EXCEPT ![name] = t]

\* variant: a dropped guard leaves the mutex locked
ReleaseNothing(l, names) == l

Release(l, names) == [n \in DOMAIN l |-> IF n \in names THEN 0 ELSE l[n]]

IdleTask == [op |-> "none", pc |-> "idle", pred |-> [kind |-> "none", serial |-> 0], serial |-> 0]

\* the record of a step that hands out, queues or drops a message, or
\* returns an error: in which operation (awaiting which serial), what
Event(op, kind, m, sn) == [op |-> op, kind |-> kind, msg |-> m, serial |-> sn]

NoEvent == Event("none", "none", NoMsg, 0)

\* the task (running op, awaiting serial sn if op is call_method) after
\* receive_specific handed m to it: receive_specific's caller returns;
\* call_method returns Ok(m) or Err(MethodError(m)), or ignores m and calls
\* receive_specific again
Deliver(tk, m) ==
    IF tk.op = "call_method" /\ CallMethodArm(m) = "ignored"
    THEN [tk EXCEPT !.pc = "rs_queue"]
    ELSE IdleTask

\* what the caller sees of m
DeliverKind(tk, m) == IF tk.op = "call_method" THEN CallMethodArm(m) ELSE "Ok"

\* ---- next_serial: lock the counter, read it, store current + 1 ----
\* let mut serial = self.0.serial.lock().await; let current = *serial;
\* on behalf of assign_serial_num, send_message or call_method
BeginNextSerial(t, op) ==
    /\ serial <= MaxSerial
    /\ SerialFree
    /\ lock' = Acquire(lock, "serial", t)
    /\ task' = [task EXCEPT ![t] = [IdleTask EXCEPT !.op = op, !.pc = "ns_store", !.serial = serial]]
    /\ UNCHANGED <<serial, incoming_queue, max_queued, in_seq, handed, dropped>>
    /\ ev' = NoEvent
    /\ UNCHANGED <<rawOutVars, rawInVars>>

\* assign_serial_num called on its own
AssignSerialNum(t) ==
    /\ task[t].pc = "idle"
    /\ BeginNextSerial(t, "assign_serial_num")
    /\ UNCHANGED helloVars
    /\ UNCHANGED cancelled
    /\ UNCHANGED replied

\* send_message (also emit_signal, reply, reply_error): assign_serial_num,
\* then sink().send(msg)
SendMessage(t) ==
    /\ task[t].pc = "idle"
    /\ BeginNextSerial(t, "send_message")
    /\ UNCHANGED helloVars
    /\ UNCHANGED cancelled
    /\ UNCHANGED replied

\* call_method: send_message, then receive_specific until the reply comes
CallMethod(t) ==
    /\ task[t].pc = "idle"
    /\ BeginNextSerial(t, "call_method")
    /\ UNCHANGED helloVars
    /\ UNCHANGED cancelled
    /\ UNCHANGED replied

\* *serial = current + 1: a u32 addition, far from its overflow for the
\* serials a run hands out (serial <= MaxSerial)
NextSerialValue(current) == current + 1

\* *serial = current + 1; current is returned and the guard dropped
NextSerialStore(t) ==
    /\ task[t].pc = "ns_store"
    /\ serial' = NextSerialValue(task[t].serial)
    /\ handed' = Append(handed, task[t].serial)
    /\ lock' = Release(lock, {"serial"})
    /\ task' = [task EXCEPT ![t] =
                  IF task[t].op = "assign_serial_num" THEN IdleTask
                  ELSE [task[t] EXCEPT !.pc = "sink"]]
    /\ UNCHANGED <<incoming_queue, max_queued, in_seq, dropped>>
    /\ ev' = NoEvent
    /\ UNCHANGED <<rawOutVars, rawInVars>>
    /\ UNCHANGED helloVars
    /\ UNCHANGED cancelled
    /\ UNCHANGED replied

\* variant: one mutex around the whole raw connection, shared with readers
SinkMutexShared == "raw_in_conn"

\* Sink { raw_conn: self.0.raw_out_conn.lock().await, .. }: the mutex a Sink holds
SinkMutex == "raw_out_conn"

\* self.sink().await: the outbound framer is locked; start_send enqueues
SinkLock(t) ==
    /\ task[t].pc = "sink"
    /\ MutexFree(SinkMutex)
    /\ lock' = Acquire(lock, SinkMutex, t)
    /\ task' = [task EXCEPT ![t].pc = "flush"]
    /\ UNCHANGED <<serial, incoming_queue, max_queued, in_seq, handed, dropped>>
    /\ ev' = NoEvent
    /\ UNCHANGED <<rawOutVars, rawInVars>>
    /\ UNCHANGED helloVars
    /\ UNCHANGED cancelled
    /\ UNCHANGED replied

\* the flush of send() ends (a WouldBlock in between changes nothing): the
\* Sink is dropped; send_message returns the serial, call_method goes on to
\* receive_specific(reply_serial == serial); an error is returned as it is
SinkFlush(t) ==
    /\ task[t].pc = "flush"
    /\ lock' = Release(lock, {SinkMutex})
    /\ \/ task' = [task EXCEPT ![t] =
                     IF task[t].op = "call_method"
                     THEN [task[t] EXCEPT !.pc = "rs_queue", !.pred = ReplyPredicate(task[t].serial)]
                     ELSE IdleTask]
       \/ task' = [task EXCEPT ![t] = IdleTask]
    /\ UNCHANGED <<serial, incoming_queue, max_queued, in_seq, handed, dropped>>
    /\ ev' = NoEvent
    /\ UNCHANGED <<rawOutVars, rawInVars>>
    /\ UNCHANGED helloVars
    /\ UNCHANGED cancelled
    /\ UNCHANGED replied

\* ---- receive_specific ----
\* top of the loop, for the task tk: the queue is locked and scanned; the
\* first match is removed and returned (the guard dropped), otherwise the
\* guard is kept and the inbound framer is locked next
ScanStep(t, tk) ==
    /\ MutexFree("incoming_queue")
    /\ LET i == FirstMatch(incoming_queue, tk.pred)
       IN  IF i # 0
           THEN /\ incoming_queue' = Remove(incoming_queue, i)
                /\ task' = [task EXCEPT ![t] = Deliver(tk, incoming_queue[i])]
                /\ ev' = Event(tk.op, DeliverKind(tk, incoming_queue[i]), incoming_queue[i], tk.serial)
                /\ UNCHANGED lock
           ELSE /\ lock' = Acquire(lock, "incoming_queue", t)
                /\ task' = [task EXCEPT ![t] = [tk EXCEPT !.pc = "rs_raw"]]
                /\ ev' = NoEvent
                /\ UNCHANGED incoming_queue
    /\ UNCHANGED <<serial, max_queued, in_seq, handed, dropped>>
    /\ UNCHANGED <<rawOutVars, rawInVars>>
    /\ UNCHANGED helloVars
    /\ UNCHANGED cancelled
    /\ UNCHANGED replied

\* receive_specific(predicate) is called
ReceiveSpecific(t) ==
    /\ task[t].pc = "idle"
    /\ \E pred \in UserPredicates :
         ScanStep(t, [IdleTask EXCEPT !.op = "receive_specific", !.pred = pred])

\* the loop of receive_specific comes round
ScanQueue(t) ==
    /\ task[t].pc = "rs_queue"
    /\ ScanStep(t, task[t])

\* Stream { raw_conn: self.0.raw_in_conn.lock().await, incoming_queue: None }
LockRawIn(t) ==
    /\ task[t].pc = "rs_raw"
    /\ MutexFree("raw_in_conn")
    /\ lock' = Acquire(lock, "raw_in_conn", t)
    /\ task' = [task EXCEPT ![t].pc = "rs_next"]
    /\ UNCHANGED <<serial, incoming_queue, max_queued, in_seq, handed, dropped>>
    /\ ev' = NoEvent
    /\ UNCHANGED <<rawOutVars, rawInVars>>
    /\ UNCHANGED helloVars
    /\ UNCHANGED cancelled
    /\ UNCHANGED replied

\* stream.try_next() yields a message: it is returned if it matches, pushed
\* if the queue has room, dropped otherwise; both guards are dropped
ReceiveNext(t) ==
    /\ task[t].pc = "rs_next"
    /\ in_seq < MaxRecv
    /\ in_seq' = in_seq + 1
    /\ \E pm \in PeerMessages :
         LET m == [type |-> pm.type, reply_serial |-> pm.reply_serial, seq |-> in_seq + 1]
         IN  IF Matches(task[t].pred, m)
             THEN /\ task' = [task EXCEPT ![t] = Deliver(task[t], m)]
                  /\ ev' = Event(task[t].op, DeliverKind(task[t], m), m, task[t].serial)
                  /\ UNCHANGED <<incoming_queue, dropped>>
             ELSE /\ incoming_queue' = PushIfRoom(incoming_queue, m, max_queued)
                  /\ ev' = Event(task[t].op,
                                 IF incoming_queue' = incoming_queue THEN "dropped" ELSE "queued",
                                 m, task[t].serial)
                  /\ dropped' = IF incoming_queue' = incoming_queue
                                THEN dropped \cup {m.seq} ELSE dropped
                  /\ task' = [task EXCEPT ![t].pc = "rs_queue"]
    /\ lock' = Release(lock, {"incoming_queue", "raw_in_conn"})
    /\ UNCHANGED <<serial, max_queued, handed>>
    /\ UNCHANGED <<rawOutVars, rawInVars>>
    /\ UNCHANGED helloVars
    /\ UNCHANGED cancelled
    /\ UNCHANGED replied

\* stream.try_next() ends with None (BrokenPipe: Err(BrokenPipe) is
\* returned) or with another error (returned by ?)
ReceiveFails(t) ==
    /\ task[t].pc = "rs_next"
    /\ \E e \in {"BrokenPipe", "Err"} :
         ev' = Event(task[t].op, e, NoMsg, task[t].serial)
    /\ task' = [task EXCEPT ![t] = IdleTask]
    /\ lock' = Release(lock, {"incoming_queue", "raw_in_conn"})
    /\ UNCHANGED <<serial, incoming_queue, max_queued, in_seq, handed, dropped>>
    /\ UNCHANGED <<rawOutVars, rawInVars>>
    /\ UNCHANGED helloVars
    /\ UNCHANGED cancelled
    /\ UNCHANGED replied

\* ---- stream() and Stream::poll_next ----
\* stream(): let raw_conn = self.0.raw_in_conn.lock().await
StreamLockRawIn(t) ==
    /\ task[t].pc = "idle"
    /\ MutexFree("raw_in_conn")
    /\ lock' = Acquire(lock, "raw_in_conn", t)
    /\ task' = [task EXCEPT ![t] = [IdleTask EXCEPT !.op = "stream", !.pc = "st_queue"]]
    /\ UNCHANGED <<serial, incoming_queue, max_queued, in_seq, handed, dropped>>
    /\ ev' = NoEvent
    /\ UNCHANGED <<rawOutVars, rawInVars>>
    /\ UNCHANGED helloVars
    /\ UNCHANGED cancelled
    /\ UNCHANGED replied

\* stream(): let incoming_queue = Some(self.0.incoming_queue.lock().await)
StreamLockQueue(t) ==
    /\ task[t].pc = "st_queue"
    /\ MutexFree("incoming_queue")
    /\ lock' = Acquire(lock, "incoming_queue", t)
    /\ task' = [task EXCEPT ![t].pc = "st_live"]
    /\ UNCHANGED <<serial, incoming_queue, max_queued, in_seq, handed, dropped>>
    /\ ev' = NoEvent
    /\ UNCHANGED <<rawOutVars, rawInVars>>
    /\ UNCHANGED helloVars
    /\ UNCHANGED cancelled
    /\ UNCHANGED replied

\* Vec::pop(): the last element
PopIndex(q) == Len(q)

\* poll_next with a queued message: queue.pop()
StreamPop(t) ==
    /\ task[t].pc = "st_live"
    /\ incoming_queue # <<>>
    /\ LET i == PopIndex(incoming_queue)
       IN  /\ incoming_queue' = Remove(incoming_queue, i)
           /\ ev' = Event("stream", "Ok", incoming_queue[i], 0)
    /\ UNCHANGED <<serial, max_queued, lock, task, in_seq, handed, dropped>>
    /\ UNCHANGED <<rawOutVars, rawInVars>>
    /\ UNCHANGED helloVars
    /\ UNCHANGED cancelled
    /\ UNCHANGED replied

\* poll_next with the queue empty: try_receive_message yields a message
StreamReceive(t) ==
    /\ task[t].pc = "st_live"
    /\ incoming_queue = <<>>
    /\ in_seq < MaxRecv
    /\ in_seq' = in_seq + 1
    /\ \E pm \in PeerMessages :
         LET m == [type |-> pm.type, reply_serial |-> pm.reply_serial, seq |-> in_seq + 1]
         IN  ev' = Event("stream", "Ok", m, 0)
    /\ UNCHANGED <<serial, incoming_queue, max_queued, lock, task, handed, dropped>>
    /\ UNCHANGED <<rawOutVars, rawInVars>>
    /\ UNCHANGED helloVars
    /\ UNCHANGED cancelled
    /\ UNCHANGED replied

\* poll_next with the queue empty: BrokenPipe ends the stream (None), any
\* other error is yielded
StreamFails(t) ==
    /\ task[t].pc = "st_live"
    /\ incoming_queue = <<>>
    /\ \E e \in {"None", "Err"} :
         ev' = Event("stream", e, NoMsg, 0)
    /\ UNCHANGED <<serial, incoming_queue, max_queued, lock, task, in_seq, handed, dropped>>
    /\ UNCHANGED <<rawOutVars, rawInVars>>
    /\ UNCHANGED helloVars
    /\ UNCHANGED cancelled
    /\ UNCHANGED replied

\* the Stream is dropped: both guards are released
StreamDrop(t) ==
    /\ task[t].pc = "st_live"
    /\ lock' = Release(lock, {"incoming_queue", "raw_in_conn"})
    /\ task' = [task EXCEPT ![t] = IdleTask]
    /\ UNCHANGED <<serial, incoming_queue, max_queued, in_seq, handed, dropped>>
    /\ ev' = NoEvent
    /\ UNCHANGED <<rawOutVars, rawInVars>>
    /\ UNCHANGED helloVars
    /\ UNCHANGED cancelled
    /\ UNCHANGED replied

\* ---- set_max_queued ----
\* *self.0.max_queued.write().await = max
SetMaxQueued(t) ==
    /\ task[t].pc = "idle"
    /\ \E max \in 0..MaxCap :
         /\ max # max_queued
         /\ max_queued' = max
    /\ UNCHANGED <<serial, incoming_queue, lock, task, in_seq, handed, dropped>>
    /\ ev' = NoEvent
    /\ UNCHANGED <<rawOutVars, rawInVars>>
    /\ UNCHANGED helloVars
    /\ UNCHANGED cancelled
    /\ UNCHANGED replied

\* Connection::new: serial 1, an empty queue, DEFAULT_MAX_QUEUED
\* OnceCell::new()
NoName == "None"

\* a connection Connection::new has returned: a peer-to-peer one
InitBuilt ==
    /\ bus_conn = FALSE
    /\ unique_name = NoName
    /\ newPc = "returned"
    /\ helloReply = NoName
    /\ cancelled = {}
    /\ replied = {}

InitInner ==
    /\ serial = 1
    /\ incoming_queue = <<>>
    /\ max_queued = DEFAULT_MAX_QUEUED
    /\ lock = [serial |-> 0, raw_out_conn |-> 0, raw_in_conn |-> 0, incoming_queue |-> 0]
    /\ task = [t \in Tasks |-> IdleTask]
    /\ ev = NoEvent
    /\ in_seq = 0
    /\ handed = <<>>
    /\ dropped = {}

InitConn == InitInner /\ InitBuilt

\* ---- send_message down to the socket ----
\* self.sink().await.send(msg): the Sink is taken and start_send is called
\* with the message stamped with the task's serial; Unsupported ends the
\* call (the Sink is dropped), otherwise the message is enqueued and the
\* flush begins
SendStartSend(t) ==
    /\ task[t].pc = "sink"
    /\ MutexFree(SinkMutex)
    /\ \E m \in OutMessages(task[t].serial) :
         IF StartSendRefuses(m, cap_unix_fd)
         THEN /\ sinkRes' = [msg |-> m, res |-> "Unsupported"]
              /\ refused' = refused \cup {m.id}
              /\ task' = [task EXCEPT ![t] = IdleTask]
              /\ UNCHANGED <<outbound, enqueued, lock>>
         ELSE /\ sinkRes' = [msg |-> m, res |-> "Ok"]
              /\ outbound' = EnqueueMessage(outbound, m)
              /\ enqueued' = Append(enqueued, m)
              /\ lock' = Acquire(lock, SinkMutex, t)
              /\ task' = [task EXCEPT ![t].pc = "flush"]
              /\ UNCHANGED refused
    /\ flushRes' = "none"
    /\ ev' = NoEvent
    /\ UNCHANGED <<wire, offered, pcOut, cap_unix_fd, lastSend, sentFds>>
    /\ UNCHANGED <<serial, incoming_queue, max_queued, in_seq, handed, dropped>>
    /\ UNCHANGED rawInVars
    /\ UNCHANGED helloVars
    /\ UNCHANGED cancelled
    /\ UNCHANGED replied

\* Sink::flush calls try_flush, the first time or again after the socket
\* became writable
SendTryFlush(t) ==
    /\ task[t].pc = "flush"
    /\ flushRes \in {"none", "Pending"}
    /\ TryFlush

\* Sink::flush got Ok from try_flush: send returns, the Sink is dropped
SendDone(t) ==
    /\ task[t].pc = "flush"
    /\ pcOut = "idle"
    /\ flushRes = "Ok"
    /\ lock' = Release(lock, {SinkMutex})
    /\ task' = [task EXCEPT ![t] = IdleTask]
    /\ ev' = NoEvent
    /\ UNCHANGED <<serial, incoming_queue, max_queued, in_seq, handed, dropped>>
    /\ UNCHANGED <<rawOutVars, rawInVars>>
    /\ UNCHANGED helloVars
    /\ UNCHANGED cancelled
    /\ UNCHANGED replied

\* Sink::flush got an error from try_flush, or from poll_writable after a
\* WouldBlock: send returns it, the Sink is dropped, the queue stays as it is
SendFails(t) ==
    /\ task[t].pc = "flush"
    /\ pcOut = "idle"
    /\ flushRes \in {"Err", "Pending"}
    /\ lock' = Release(lock, {SinkMutex})
    /\ task' = [task EXCEPT ![t] = IdleTask]
    /\ ev' = NoEvent
    /\ UNCHANGED <<serial, incoming_queue, max_queued, in_seq, handed, dropped>>
    /\ UNCHANGED <<rawOutVars, rawInVars>>
    /\ UNCHANGED helloVars
    /\ UNCHANGED cancelled
    /\ UNCHANGED replied

\* ---- Stream::poll_next and receive_specific on the raw connection ----
\* the kinds of std::io::Error a socket error may carry
IoErrorKinds == {"BrokenPipe", "Other"}

\* the message type in byte 1 of the primary header
MessageTypeOf(b) ==
    CASE b = 1 -> "MethodCall"
      [] b = 2 -> "MethodReturn"
      [] b = 3 -> "Error"
      [] b = 4 -> "Signal"
      [] OTHER -> "Invalid"

\* the facade's view of a message the raw connection yielded (the frames of
\* the model carry no REPLY_SERIAL field)
MessageOf(raw) == [type |-> MessageTypeOf(raw.bytes[2]), reply_serial |-> 0, seq |-> raw.seq]

\* Stream::poll_next's match on what try_receive_message returned (other
\* than WouldBlock): Ok(m) => Some(Ok(m)); an Io error of kind BrokenPipe
\* => None; any other error e => Some(Err(e))
PollNextItem(res, kind) ==
    CASE res = "Ok" -> "Ok"
      [] res = "IoError" /\ kind = "BrokenPipe" -> "None"
      [] res = "IoError" -> "IoError"
      [] OTHER -> res

\* receive_specific's stream.try_next().await?: Some(msg) => msg; None =>
\* Err(Io(BrokenPipe)); an error is returned as it is
TryNextResult(item) == IF item = "None" THEN "BrokenPipe" ELSE item

\* try_receive_message has returned something else than WouldBlock
RawReturned == pcIn = "idle" /\ recvRes \notin {"none", "Pending"}

\* poll_next (queue empty) or receive_specific calls try_receive_message,
\* the first time or again after the socket became readable
RawTryReceive(t) ==
    /\ \/ task[t].pc = "st_live" /\ incoming_queue = <<>>
       \/ task[t].pc = "rs_next"
    /\ ~RawReturned
    /\ TryReceiveMessage

\* poll_next hands on what try_receive_message returned
RawStreamItem(t) ==
    /\ task[t].pc = "st_live"
    /\ incoming_queue = <<>>
    /\ RawReturned
    /\ \E kind \in IoErrorKinds :
         LET item == PollNextItem(recvRes, kind)
         IN  ev' = Event("stream", item,
                         IF item = "Ok" THEN MessageOf(yielded[Len(yielded)]) ELSE NoMsg, 0)
    /\ in_seq' = inbound.prev_seq
    /\ recvRes' = "none"
    /\ UNCHANGED <<serial, incoming_queue, max_queued, lock, task, handed, dropped>>
    /\ UNCHANGED <<inbound, sock, pcIn, lastRead, yielded, recvErrs>>
    /\ UNCHANGED rawOutVars
    /\ UNCHANGED helloVars
    /\ UNCHANGED cancelled
    /\ UNCHANGED replied

\* receive_specific gets a message from try_next: returned if it matches,
\* pushed if the queue has room, dropped otherwise
RawReceiveNext(t) ==
    /\ task[t].pc = "rs_next"
    /\ RawReturned
    /\ recvRes = "Ok"
    /\ LET m == MessageOf(yielded[Len(yielded)])
       IN  IF Matches(task[t].pred, m)
           THEN /\ task' = [task EXCEPT ![t] = Deliver(task[t], m)]
                /\ ev' = Event(task[t].op, DeliverKind(task[t], m), m, task[t].serial)
                /\ UNCHANGED <<incoming_queue, dropped>>
           ELSE /\ incoming_queue' = PushIfRoom(incoming_queue, m, max_queued)
                /\ ev' = Event(task[t].op,
                               IF incoming_queue' = incoming_queue THEN "dropped" ELSE "queued",
                               m, task[t].serial)
                /\ dropped' = IF incoming_queue' = incoming_queue
                              THEN dropped \cup {m.seq} ELSE dropped
                /\ task' = [task EXCEPT ![t].pc = "rs_queue"]
    /\ in_seq' = inbound.prev_seq
    /\ recvRes' = "none"
    /\ lock' = Release(lock, {"incoming_queue", "raw_in_conn"})
    /\ UNCHANGED <<serial, max_queued, handed>>
    /\ UNCHANGED <<inbound, sock, pcIn, lastRead, yielded, recvErrs>>
    /\ UNCHANGED rawOutVars
    /\ UNCHANGED helloVars
    /\ UNCHANGED cancelled
    /\ UNCHANGED replied

\* receive_specific gets None or an error from try_next and returns an error
RawReceiveFails(t) ==
    /\ task[t].pc = "rs_next"
    /\ RawReturned
    /\ recvRes # "Ok"
    /\ \E kind \in IoErrorKinds :
         ev' = Event(task[t].op, TryNextResult(PollNextItem(recvRes, kind)), NoMsg, task[t].serial)
    /\ task' = [task EXCEPT ![t] = IdleTask]
    /\ recvRes' = "none"
    /\ lock' = Release(lock, {"incoming_queue", "raw_in_conn"})
    /\ UNCHANGED <<serial, incoming_queue, max_queued, in_seq, handed, dropped>>
    /\ UNCHANGED <<inbound, sock, pcIn, lastRead, yielded, recvErrs>>
    /\ UNCHANGED rawOutVars
    /\ UNCHANGED helloVars
    /\ UNCHANGED cancelled
    /\ UNCHANGED replied

(***************************************************************************)
(* Initial states and the raw specifications.                              *)
(***************************************************************************)
InitRawOut(caps) ==
    /\ outbound = OutBoundNew
    /\ wire = <<>>
    /\ enqueued = <<>>
    /\ offered = 0
    /\ refused = {}
    /\ pcOut = "idle"
    /\ flushRes = "none"
    /\ sinkRes = [msg |-> [id |-> 0, len |-> 0, fds |-> <<>>], res |-> "none"]
    /\ cap_unix_fd \in caps
    /\ lastSend = NoSend
    /\ sentFds = <<>>

InitRawIn(streams, fdsets) ==
    /\ inbound = InBoundNew(<<>>)
    /\ \E st \in streams, at \in fdsets :
         sock = [stream |-> st, fdAt |-> at, off |-> 0, eof |-> FALSE]
    /\ pcIn = "idle"
    /\ recvRes = "none"
    /\ lastRead = -1
    /\ yielded = <<>>
    /\ recvErrs = {}

InitOut == InitRawOut(BOOLEAN) /\ InitRawIn({<<>>}, {{}}) /\ InitConn

NextOut ==
    \/ Enqueue
    \/ SinkStartSend
    \/ TryFlush
    \/ FlushPop
    \/ FlushSend
    \/ FlushDone

SpecRawOut == InitOut /\ [][NextOut]_vars

InitIn == InitRawOut({FALSE}) /\ InitRawIn(Streams, FdOffsets) /\ InitConn

NextIn ==
    \/ TryReceiveMessage
    \/ RecvHeader
    \/ ParseHeader
    \/ RecvBody
    \/ CompleteMessage

SpecRawIn == InitIn /\ [][NextIn]_vars

\* Connection::new(socket, raw_in_buffer) with the bytes the handshake has
\* read past its own end: any prefix of what the peer has sent
InitRawInBuffered(streams) ==
    /\ \E st \in streams, k \in 0..MaxBuffered :
         /\ k <= Len(st)
         /\ inbound = InBoundNew(Take(st, k))
         /\ sock = [stream |-> st, fdAt |-> {}, off |-> k, eof |-> FALSE]
    /\ pcIn = "idle"
    /\ recvRes = "none"
    /\ lastRead = -1
    /\ yielded = <<>>
    /\ recvErrs = {}

InitInBuffered == InitRawOut({FALSE}) /\ InitRawInBuffered(Streams) /\ InitConn

\* the inbound half of a raw connection created with a raw_in_buffer
SpecRawInBuffered == InitInBuffered /\ [][NextIn]_vars

\* the facade: Connection::new on a non-bus connection, then the tasks
Init == InitRawOut({FALSE}) /\ InitRawIn({<<>>}, {{}}) /\ InitConn

Next ==
    \E t \in Tasks :
      \/ CallMethod(t)
      \/ NextSerialStore(t)
      \/ SinkLock(t)
      \/ SinkFlush(t)
      \/ ReceiveSpecific(t)
      \/ ScanQueue(t)
      \/ LockRawIn(t)
      \/ ReceiveNext(t)
      \/ ReceiveFails(t)
      \/ StreamLockRawIn(t)
      \/ StreamLockQueue(t)
      \/ StreamPop(t)
      \/ StreamReceive(t)
      \/ StreamFails(t)
      \/ StreamDrop(t)
      \/ SetMaxQueued(t)

Spec == Init /\ [][Next]_vars

\* ---- concurrent call_method calls and a peer that answers each ----
\* the calls that are on the wire and that the peer has not answered yet
Answerable ==
    {sn \in (1..MaxSerial) \ replied :
       \E t \in Tasks : /\ task[t].op = "call_method"
                         /\ task[t].serial = sn
                         /\ task[t].pc \in {"rs_queue", "rs_raw", "rs_next"}}

\* what the peer may send next: the reply (MethodReturn or Error) to a call
\* it has not answered, or a signal as long as the run leaves room for the
\* replies still due
PeerSends ==
    [type : {"MethodReturn", "Error"}, reply_serial : Answerable]
      \cup (IF in_seq + (MaxSerial - Cardinality(replied)) < MaxRecv
            THEN {[type |-> "Signal", reply_serial |-> 0]} ELSE {})

\* stream.try_next() yields the next message of the peer: it is returned if
\* it matches, pushed if the queue has room, dropped otherwise; both guards
\* are dropped
ReceiveFromPeer(t) ==
    /\ task[t].pc = "rs_next"
    /\ in_seq < MaxRecv
    /\ in_seq' = in_seq + 1
    /\ \E pm \in PeerSends :
         LET m == [type |-> pm.type, reply_serial |-> pm.reply_serial, seq |-> in_seq + 1]
         IN  /\ replied' = replied \cup ({pm.reply_serial} \ {0})
             /\ IF Matches(task[t].pred, m)
                THEN /\ task' = [task EXCEPT ![t] = Deliver(task[t], m)]
                     /\ ev' = Event(task[t].op, DeliverKind(task[t], m), m, task[t].serial)
                     /\ UNCHANGED <<incoming_queue, dropped>>
                ELSE /\ incoming_queue' = PushIfRoom(incoming_queue, m, max_queued)
                     /\ ev' = Event(task[t].op,
                                    IF incoming_queue' = incoming_queue THEN "dropped" ELSE "queued",
                                    m, task[t].serial)
                     /\ dropped' = IF incoming_queue' = incoming_queue
                                   THEN dropped \cup {m.seq} ELSE dropped
                     /\ task' = [task EXCEPT ![t].pc = "rs_queue"]
    /\ lock' = Release(lock, {"incoming_queue", "raw_in_conn"})
    /\ UNCHANGED <<serial, max_queued, handed>>
    /\ UNCHANGED <<rawOutVars, rawInVars>>
    /\ UNCHANGED helloVars
    /\ UNCHANGED cancelled

\* a connection built with the default max_queued or with
\* Connection::new(..).set_max_queued(max)
InitCalls ==
    /\ InitRawOut({FALSE})
    /\ InitRawIn({<<>>}, {{}})
    /\ InitBuilt
    /\ serial = 1
    /\ incoming_queue = <<>>
    /\ max_queued \in (0..MaxCap) \cup {DEFAULT_MAX_QUEUED}
    /\ lock = [serial |-> 0, raw_out_conn |-> 0, raw_in_conn |-> 0, incoming_queue |-> 0]
    /\ task = [t \in Tasks |-> IdleTask]
    /\ ev = NoEvent
    /\ in_seq = 0
    /\ handed = <<>>
    /\ dropped = {}

NextCalls ==
    \E t \in Tasks :
      \/ CallMethod(t)
      \/ NextSerialStore(t)
      \/ SinkLock(t)
      \/ SinkFlush(t)
      \/ ScanQueue(t)
      \/ LockRawIn(t)
      \/ ReceiveFromPeer(t)

\* every step of a call that can be taken is taken in the end (the mutexes
\* are fair: a task that finds one free again and again gets it), and the
\* peer sends in the end what it may send
FairCalls ==
    \A t \in Tasks :
      /\ WF_vars(NextSerialStore(t))
      /\ WF_vars(SinkLock(t))
      /\ WF_vars(SinkFlush(t))
      /\ SF_vars(ScanQueue(t))
      /\ SF_vars(LockRawIn(t))
      /\ WF_vars(ReceiveFromPeer(t))

SpecCalls == InitCalls /\ [][NextCalls]_vars /\ FairCalls

\* every operation of the facade but stream()
NextNoStream ==
    \E t \in Tasks :
      \/ AssignSerialNum(t)
      \/ SendMessage(t)
      \/ CallMethod(t)
      \/ NextSerialStore(t)
      \/ SinkLock(t)
      \/ SinkFlush(t)
      \/ ReceiveSpecific(t)
      \/ ScanQueue(t)
      \/ LockRawIn(t)
      \/ ReceiveNext(t)
      \/ ReceiveFails(t)
      \/ SetMaxQueued(t)

SpecNoStream == Init /\ [][NextNoStream]_vars

\* the senders: tasks that only stamp and send
NextSend ==
    \E t \in Tasks :
      \/ AssignSerialNum(t)
      \/ SendMessage(t)
      \/ CallMethod(t)
      \/ NextSerialStore(t)
      \/ SinkLock(t)
      \/ SinkFlush(t)

SpecSend == Init /\ [][NextSend]_vars

InitWire == InitRawOut(BOOLEAN) /\ InitRawIn({<<>>}, {{}}) /\ InitConn

\* concurrent send_message calls, down to the bytes the socket accepts
NextWire ==
    \/ \E t \in Tasks :
         \/ SendMessage(t)
         \/ NextSerialStore(t)
         \/ SendStartSend(t)
         \/ SendTryFlush(t)
         \/ SendDone(t)
         \/ SendFails(t)
    \/ FlushPop
    \/ FlushSend
    \/ FlushDone

SpecWire == InitWire /\ [][NextWire]_vars

\* ---- Connection::new and hello_bus ----
\* a task that has no connection yet
NoTask == [IdleTask EXCEPT !.pc = "unborn"]

\* the task that calls Connection::new
Builder == 1

\* unique names a bus hands out
Names == {":1.42", ":1.7"}

\* bodies of the reply to Hello: a name, or something that is not a string
HelloBodies == Names \cup {"NotAString"}

\* variant: hello_bus ignores a failed call and a body that is no string
HelloBusUnchecked(res, body) ==
    [pc |-> "returned", name |-> IF res = "Ok" /\ body \in Names THEN body ELSE NoName]

\* hello_bus after call_method returned res: call_method(..).await?
\* .body()? gives the name or ends hello_bus (and new) with the error
HelloBus(res, body) ==
    IF res = "Ok" /\ body \in Names
    THEN [pc |-> "returned", name |-> body]
    ELSE [pc |-> "failed", name |-> NoName]

\* OnceCell::set: stores v if the cell is empty (otherwise Err, on which
\* hello_bus panics)
OnceCellSet(cell, v) == IF cell = NoName THEN v ELSE cell

\* if !bus_connection { return Ok(connection) }
NewReturns ==
    /\ newPc = "new"
    /\ ~bus_conn
    /\ newPc' = "returned"
    /\ task' = [t \in Tasks |-> IdleTask]
    /\ ev' = NoEvent
    /\ UNCHANGED <<serial, incoming_queue, max_queued, lock, in_seq, handed, dropped>>
    /\ UNCHANGED <<bus_conn, unique_name, helloReply>>
    /\ UNCHANGED <<rawOutVars, rawInVars>>
    /\ UNCHANGED cancelled
    /\ UNCHANGED replied

\* connection.hello_bus(): call_method(.., "Hello", &()) begins
HelloCall ==
    /\ newPc = "new"
    /\ bus_conn
    /\ newPc' = "hello"
    /\ BeginNextSerial(Builder, "call_method")
    /\ UNCHANGED <<bus_conn, unique_name, helloReply>>
    /\ UNCHANGED cancelled
    /\ UNCHANGED replied

\* call_method has returned to hello_bus: on Ok the body is read and stored
\* in unique_name and the connection returned; an error ends construction
HelloReturns ==
    /\ newPc = "hello"
    /\ task[Builder].pc = "idle"
    /\ \E body \in HelloBodies :
         LET res == IF ev.op = "call_method" /\ ev.kind = "Ok" THEN "Ok" ELSE "Err"
             r   == HelloBus(res, body)
         IN  /\ newPc' = r.pc
             /\ unique_name' = IF r.name # NoName THEN OnceCellSet(unique_name, r.name)
                                ELSE unique_name
             /\ helloReply' = IF res = "Ok" THEN body ELSE NoName
             /\ task' = IF r.pc = "returned" THEN [t \in Tasks |-> IdleTask]
                        ELSE [t \in Tasks |-> NoTask]
    /\ ev' = NoEvent
    /\ UNCHANGED <<serial, incoming_queue, max_queued, lock, in_seq, handed, dropped>>
    /\ UNCHANGED bus_conn
    /\ UNCHANGED <<rawOutVars, rawInVars>>
    /\ UNCHANGED cancelled
    /\ UNCHANGED replied

\* a call_method on the connection new has returned
BuiltCallMethod(t) ==
    /\ newPc = "returned"
    /\ CallMethod(t)

\* the connection under construction: nobody holds a clone yet
InitHello ==
    /\ InitRawOut({FALSE})
    /\ InitRawIn({<<>>}, {{}})
    /\ serial = 1
    /\ incoming_queue = <<>>
    /\ max_queued = DEFAULT_MAX_QUEUED
    /\ lock = [serial |-> 0, raw_out_conn |-> 0, raw_in_conn |-> 0, incoming_queue |-> 0]
    /\ task = [t \in Tasks |-> NoTask]
    /\ ev = NoEvent
    /\ in_seq = 0
    /\ handed = <<>>
    /\ dropped = {}
    /\ bus_conn \in BOOLEAN
    /\ unique_name = NoName
    /\ newPc = "new"
    /\ helloReply = NoName
    /\ cancelled = {}
    /\ replied = {}

NextHello ==
    \/ NewReturns
    \/ HelloCall
    \/ HelloReturns
    \/ \E t \in Tasks :
         \/ BuiltCallMethod(t)
         \/ NextSerialStore(t)
         \/ SinkLock(t)
         \/ SinkFlush(t)
         \/ ScanQueue(t)
         \/ LockRawIn(t)
         \/ ReceiveNext(t)
         \/ ReceiveFails(t)

SpecHello == InitHello /\ [][NextHello]_vars

\* ---- futures dropped at a suspension point ----
\* the future of send_message is dropped while Sink::flush is Pending: the
\* Sink (the guard of raw_out_conn) is dropped with it, the raw connection
\* is left as it is
SendCancelled(t) ==
    /\ task[t].pc = "flush"
    /\ pcOut = "idle"
    /\ flushRes = "Pending"
    /\ lock' = Release(lock, {SinkMutex})
    /\ task' = [task EXCEPT ![t] = IdleTask]
    /\ ev' = NoEvent
    /\ cancelled' = IF outbound.pos > 0 THEN cancelled \cup {"send"} ELSE cancelled
    /\ UNCHANGED <<serial, incoming_queue, max_queued, in_seq, handed, dropped>>
    /\ UNCHANGED <<rawOutVars, rawInVars>>
    /\ UNCHANGED helloVars
    /\ UNCHANGED replied

\* the future of receive_specific is dropped while poll_next is Pending: the
\* Stream and the queue guard are dropped with it, the raw connection is
\* left as it is
ReceiveCancelled(t) ==
    /\ task[t].pc = "rs_next"
    /\ pcIn = "idle"
    /\ recvRes = "Pending"
    /\ lock' = Release(lock, {"incoming_queue", "raw_in_conn"})
    /\ task' = [task EXCEPT ![t] = IdleTask]
    /\ ev' = NoEvent
    /\ cancelled' = IF inbound.pos > 0 THEN cancelled \cup {"receive"} ELSE cancelled
    /\ UNCHANGED <<serial, incoming_queue, max_queued, in_seq, handed, dropped>>
    /\ UNCHANGED <<rawOutVars, rawInVars>>
    /\ UNCHANGED helloVars
    /\ UNCHANGED replied

\* the frame the peer sends to a connection whose receivers come and go
CancelFrame == Frame(1, 0, MaxBody)

\* the bytes of it that arrive when the peer stalls inside the header
CancelStalled == Take(CancelFrame, 2)

\* a connection that has sent nothing yet and whose peer stalls, or one
\* whose peer sends the whole frame and which has handed out its serials
\* (MaxSerial assign_serial_num calls) before
InitCancel ==
    /\ InitRawOut({FALSE})
    /\ InitBuilt
    /\ incoming_queue = <<>>
    /\ max_queued = DEFAULT_MAX_QUEUED
    /\ lock = [serial |-> 0, raw_out_conn |-> 0, raw_in_conn |-> 0, incoming_queue |-> 0]
    /\ task = [t \in Tasks |-> IdleTask]
    /\ ev = NoEvent
    /\ in_seq = 0
    /\ dropped = {}
    /\ \/ /\ InitRawIn({CancelStalled}, {{}})
          /\ serial = 1
          /\ handed = <<>>
       \/ /\ InitRawIn({CancelFrame}, {{}})
          /\ serial = MaxSerial + 1
          /\ handed = [i \in 1..MaxSerial |-> i]

\* send_message and receive_specific calls, any of which may be dropped
\* while it waits for the socket
NextCancel ==
    \/ \E t \in Tasks :
         \/ SendMessage(t)
         \/ NextSerialStore(t)
         \/ SendStartSend(t)
         \/ SendTryFlush(t)
         \/ SendDone(t)
         \/ SendFails(t)
         \/ SendCancelled(t)
         \/ ReceiveSpecific(t)
         \/ ScanQueue(t)
         \/ LockRawIn(t)
         \/ RawTryReceive(t)
         \/ RawReceiveNext(t)
         \/ RawReceiveFails(t)
         \/ ReceiveCancelled(t)
    \/ FlushPop
    \/ FlushSend
    \/ FlushDone
    \/ RecvHeader
    \/ ParseHeader
    \/ RecvBody
    \/ CompleteMessage

SpecCancel == InitCancel /\ [][NextCancel]_vars

\* what the peer sends before it closes: nothing, a frame, a frame and a
\* part of the header of a second one, a frame and a second one short of
\* its last byte
ClosingStreams ==
    { <<>>, Frame(1, 0, 0), Frame(1, 0, 0) \o Take(Frame(2, 0, MaxBody), 3),
      Frame(1, 0, 0) \o Take(Frame(2, 0, MaxBody), MIN_MESSAGE_SIZE + MaxBody - 1) }

InitClose == InitRawOut({FALSE}) /\ InitRawIn(ClosingStreams, {{}}) /\ InitConn

\* stream() pulls and receive_specific calls on a socket the peer closes
NextClose ==
    \/ \E t \in Tasks :
         \/ ReceiveSpecific(t)
         \/ ScanQueue(t)
         \/ LockRawIn(t)
         \/ StreamLockRawIn(t)
         \/ StreamLockQueue(t)
         \/ StreamPop(t)
         \/ StreamDrop(t)
         \/ RawTryReceive(t)
         \/ RawStreamItem(t)
         \/ RawReceiveNext(t)
         \/ RawReceiveFails(t)
    \/ RecvHeader
    \/ ParseHeader
    \/ RecvBody
    \/ CompleteMessage

SpecClose == InitClose /\ [][NextClose]_vars

(***************************************************************************)
(* Claims about the outbound half (SpecRawOut).                            *)
(***************************************************************************)
\* what is still to be written: the rest of the head, then the other messages
Unwritten(ob) ==
    IF ob.msgs = <<>> THEN <<>>
    ELSE FlushData(ob) \o Flatten([i \in 1..(Len(ob.msgs) - 1) |-> AsBytes(ob.msgs[i + 1])])

\* C1: under any interleaving of enqueue_message and try_flush, with
\* poll_sendmsg returning Pending at will and accepting any n >= 1 bytes, the
\* bytes the socket accepted followed by the bytes still to be written are
\* exactly the as_bytes() of the enqueued messages in enqueue order (nothing
\* skipped, repeated or cut), and try_flush returns Ready(Ok) only with the
\* queue empty, all bytes on the wire.
C1_FlushExactlyOnce ==
    /\ wire \o Unwritten(outbound) = Flatten([i \in 1..Len(enqueued) |-> AsBytes(enqueued[i])])
    /\ flushRes = "Ok" =>
         /\ outbound.msgs = <<>>
         /\ outbound.pos = 0
         /\ wire = Flatten([i \in 1..Len(enqueued) |-> AsBytes(enqueued[i])])

\* C1 witness: a flush that ended Ready(Ok) after at least two messages, the
\* second one longer than one byte
C1_Witness ==
    /\ flushRes = "Ok"
    /\ Len(enqueued) >= 2
    /\ enqueued[2].len >= 2
    /\ Len(wire) >= 4

\* C10: on a connection with cap_unix_fd = false, start_send of a message
\* with fds returns Unsupported and leaves the outbound queue and pos (and
\* the wire) as they were, and no byte of a refused message is ever written;
\* every other start_send appends the message to the queue.
C10_FdRefusal ==
    /\ [](\A i \in 1..Len(wire) : wire[i][1] \notin refused)
    /\ [](\A i \in 1..Len(outbound.msgs) : outbound.msgs[i].id \notin refused)
    /\ [][sinkRes'.msg.id # sinkRes.msg.id =>
            LET m == sinkRes'.msg
            IN  IF m.fds # <<>> /\ ~cap_unix_fd
                THEN /\ sinkRes'.res = "Unsupported"
                     /\ outbound' = outbound
                     /\ wire' = wire
                ELSE /\ sinkRes'.res = "Ok"
                     /\ outbound'.msgs = Append(outbound.msgs, m)
                     /\ outbound'.pos = outbound.pos]_vars

\* C10 witness: a refusal on a connection without fd passing, while bytes of
\* other messages went out
C10_Witness ==
    /\ ~cap_unix_fd
    /\ sinkRes.res = "Unsupported"
    /\ sinkRes.msg.fds # <<>>
    /\ flushRes = "Ok"
    /\ wire # <<>>

(***************************************************************************)
(* Claims about the inbound half (SpecRawIn).                              *)
(***************************************************************************)
\* the messages a reader gets that has the whole stream at hand: frame after
\* frame, each cut at the total_len its primary header declares
RECURSIVE SingleShot(_)
SingleShot(stream) ==
    IF Len(stream) < MIN_MESSAGE_SIZE THEN <<>>
    ELSE LET h == PrimaryHeaderRead(Take(stream, MIN_MESSAGE_SIZE))
         IN  IF ~h.ok \/ TotalLen(h) > MAX_MESSAGE_SIZE \/ Len(stream) < TotalLen(h)
             THEN <<>>
             ELSE <<Take(stream, TotalLen(h))>> \o SingleShot(Drop(stream, TotalLen(h)))

YieldedBytes == [i \in 1..Len(yielded) |-> yielded[i].bytes]

\* C2: however the stream is cut into chunks (down to one byte) and however
\* many Pending returns fall between them, the messages yielded so far are
\* the first frames of the single-shot reading, byte for byte, and the bytes
\* of the frame in progress are kept (the yielded bytes followed by the
\* buffered bytes are exactly what was read from the socket); with the whole
\* stream read and no frame in progress, every frame has been yielded.
C2_ChunkingInvariant ==
    /\ Flatten(YieldedBytes) \o inbound.buffer.data = Take(sock.stream, sock.off)
    /\ Len(yielded) <= Len(SingleShot(sock.stream))
    /\ YieldedBytes = Take(SingleShot(sock.stream), Len(yielded))
    /\ (sock.off = Len(sock.stream) /\ inbound.pos = 0) =>
         YieldedBytes = SingleShot(sock.stream)

\* C2 witness: both frames of a stream yielded, the last chunk one byte long
C2_Witness ==
    /\ Len(yielded) = 2
    /\ lastRead = 1
    /\ recvRes = "Ok"
    /\ sock.off = Len(sock.stream)

\* C8: a read of 0 bytes while a frame is assembled, in the header phase or
\* in the body phase, ends try_receive_message with UnexpectedEof.
C8_EofEndsCall ==
    lastRead = 0 => (pcIn = "idle" /\ recvRes = "UnexpectedEof")

\* the primary header in the buffer, once 16 bytes are there
BufferedHeader == PrimaryHeaderRead(inbound.buffer.data)

\* C9: a frame whose header declares total_len > MAX_MESSAGE_SIZE is refused
\* with ExcessData by the call that completes its 16 header bytes: the buffer
\* stays 16 bytes long, no byte past the header is read, the body phase is
\* never entered; ExcessData is returned for no frame of total_len <=
\* MAX_MESSAGE_SIZE (one of exactly MAX_MESSAGE_SIZE enters the body phase).
C9_ExcessData ==
    /\ recvRes = "ExcessData" =>
         /\ inbound.pos = MIN_MESSAGE_SIZE
         /\ inbound.buffer.len = MIN_MESSAGE_SIZE
         /\ BufferedHeader.ok
         /\ TotalLen(BufferedHeader) > MAX_MESSAGE_SIZE
         /\ sock.off = Len(Flatten(YieldedBytes)) + MIN_MESSAGE_SIZE
    /\ (inbound.pos >= MIN_MESSAGE_SIZE /\ BufferedHeader.ok) =>
         IF TotalLen(BufferedHeader) > MAX_MESSAGE_SIZE
         THEN /\ pcIn \in {"parse", "idle"}
              /\ pcIn = "idle" => recvRes = "ExcessData"
              /\ inbound.buffer.len = MIN_MESSAGE_SIZE
         ELSE /\ recvRes # "ExcessData"
              /\ pcIn # "parse" => inbound.buffer.len = TotalLen(BufferedHeader)

\* C9 witness: ExcessData returned for the second frame of a stream
C9_Witness ==
    /\ recvRes = "ExcessData"
    /\ Len(yielded) = 1
    /\ TotalLen(BufferedHeader) = MAX_MESSAGE_SIZE + 1

\* a frame of exactly MAX_MESSAGE_SIZE bytes is in its body phase
C9_ExactIsAccepted ==
    /\ pcIn = "body"
    /\ inbound.buffer.len = MAX_MESSAGE_SIZE
    /\ inbound.pos > MIN_MESSAGE_SIZE


(***************************************************************************)
(* The async facade: correlation, queueing, serial numbers.               *)
(***************************************************************************)
\* the tasks inside call_method that await serial sn and are about to scan
\* the queue again
Waiting(sn) ==
    {t \in Tasks : /\ task[t].op = "call_method"
                   /\ task[t].serial = sn
                   /\ task[t].pc = "rs_queue"}

\* C3: call_method returns Ok(m) only for a MethodReturn whose reply_serial
\* is the serial assigned to the call, Err(MethodError) only for an Error
\* with that reply_serial; it never returns on a message with another
\* reply_serial (that message is queued or dropped and the call waits on);
\* a message with the matching reply_serial but another type is ignored and
\* the call waits on.
C3_CallMethodCorrelation ==
    (ev.op = "call_method" /\ ev.msg # NoMsg) =>
        /\ \E i \in 1..Len(handed) : handed[i] = ev.serial
        /\ ev.kind \in {"Ok", "MethodError", "ignored", "queued", "dropped"}
        /\ ev.kind = "Ok" =>
             ev.msg.type = "MethodReturn" /\ ev.msg.reply_serial = ev.serial
        /\ ev.kind = "MethodError" =>
             ev.msg.type = "Error" /\ ev.msg.reply_serial = ev.serial
        /\ ev.kind = "ignored" =>
             /\ ev.msg.reply_serial = ev.serial
             /\ ev.msg.type \notin {"MethodReturn", "Error"}
             /\ Waiting(ev.serial) # {}
        /\ ev.msg.reply_serial # ev.serial =>
             /\ ev.kind \in {"queued", "dropped"}
             /\ Waiting(ev.serial) # {}
        /\ (ev.msg.reply_serial = ev.serial /\ ev.msg.type \notin {"MethodReturn", "Error"}) =>
             ev.kind = "ignored"

\* the second call gets its reply out of the queue, where another receiver
\* had put it
C3_Witness ==
    /\ ev.op = "call_method"
    /\ ev.kind = "Ok"
    /\ ev.serial = 2
    /\ ev.msg.type = "MethodReturn"
    /\ ev.msg.seq < in_seq

\* the step pulls a message from the socket inside receive_specific
PullsSelective == in_seq' = in_seq + 1 /\ ev'.op \in {"receive_specific", "call_method"}

C5_QueueWithinCap == Len(incoming_queue) <= max_queued

C7_SerialsMonotonic ==
    /\ \A i \in 1..Len(handed) : handed[i] = i
    /\ serial = Len(handed) + 1

\* two tasks hold the serials 1 and 2 at the same time
C7_Witness ==
    /\ handed = <<1, 2>>
    /\ \E t1, t2 \in Tasks :
         /\ t1 # t2
         /\ task[t1].serial = 1 /\ task[t1].op = "send_message"
         /\ task[t2].serial = 2 /\ task[t2].op = "call_method"

(***************************************************************************)
(* Second group of properties: raw connection.                            *)
(***************************************************************************)
\* the enqueued message with the given id
EnqueuedMsg(id) == CHOOSE m \in {enqueued[i] : i \in 1..Len(enqueued)} : m.id = id

\* C14: try_flush passes the head message's fds to poll_sendmsg only in
\* calls made with outbound.pos = 0 and an empty list in every call made
\* with outbound.pos > 0; so the socket accepts a message's fds once, with
\* the chunk that starts at its first byte, whatever the partial writes and
\* Pending returns.
C14_FdsWithFirstChunk ==
    /\ lastSend.id # 0 =>
         /\ lastSend.pos > 0 => lastSend.fds = <<>>
         /\ lastSend.pos = 0 => lastSend.fds = EnqueuedMsg(lastSend.id).fds
    /\ \A i \in 1..Len(sentFds) : sentFds[i].pos = 0
    /\ \A i, j \in 1..Len(sentFds) : i # j => sentFds[i].id # sentFds[j].id
    /\ {sentFds[i].id : i \in 1..Len(sentFds)} =
         {enqueued[i].id : i \in {k \in 1..Len(enqueued) :
                                    /\ enqueued[k].fds # <<>>
                                    /\ \E w \in 1..Len(wire) : wire[w] = <<enqueued[k].id, 1>>}}

\* a message with fds went out in more than one chunk, after a Pending
C14_Witness ==
    /\ lastSend.id # 0 /\ lastSend.pos > 0
    /\ EnqueuedMsg(lastSend.id).fds # <<>>
    /\ sentFds = <<[id |-> lastSend.id, pos |-> 0]>>
    /\ flushRes = "Pending"

C20_PosWithinBuffer == inbound.pos <= inbound.buffer.len

(***************************************************************************)
(* Second group of properties: the async facade.                          *)
(***************************************************************************)
\* the tasks that hold a guard of the inbound side: inside stream() or a
\* live Stream, or inside receive_specific past its queue scan
Readers == {t \in Tasks : task[t].pc \in {"st_queue", "st_live", "rs_raw", "rs_next"}}

\* the tasks that hold a Sink
Writers == {t \in Tasks : task[t].pc = "flush"}

\* C11: readers and writers do not block each other. A sender can always
\* finish stamping and flushing, and waits for the Sink only while another
\* sender holds it, whatever guards the readers hold; a reader waits for the
\* queue or the inbound framer only while another reader holds it, whatever
\* the senders hold.
C11_ReadersWritersIndependent ==
    \A t \in Tasks :
      /\ task[t].pc = "ns_store" => ENABLED NextSerialStore(t)
      /\ task[t].pc = "flush" => ENABLED SinkFlush(t)
      /\ (task[t].pc = "sink" /\ ~ENABLED SinkLock(t)) => Writers \ {t} # {}
      /\ (task[t].pc = "rs_queue" /\ ~ENABLED ScanQueue(t)) => Readers \ {t} # {}
      /\ (task[t].pc = "rs_raw" /\ ~ENABLED LockRawIn(t)) => Readers \ {t} # {}
      /\ (task[t].pc = "st_queue" /\ ~ENABLED StreamLockQueue(t)) => Readers \ {t} # {}
      /\ (task[t].pc = "idle" /\ ~ENABLED StreamLockRawIn(t)) => Readers \ {t} # {}
      /\ (task[t].pc = "st_live" /\ incoming_queue # <<>>) => ENABLED StreamPop(t)

\* a sender took the Sink while a receive_specific waits on the socket with
\* the queue and the inbound framer locked
C11_Witness ==
    \E r, w \in Tasks :
      /\ task[r].pc = "rs_next" /\ task[r].op = "receive_specific"
      /\ lock["raw_in_conn"] = r /\ lock["incoming_queue"] = r
      /\ task[w].pc = "flush"
      /\ lock[SinkMutex] = w

\* C12: the bytes of each message are contiguous on the wire, in their own
\* order: between two bytes of one message there is no byte of another, for
\* any interleaving of concurrent send_message calls, partial writes,
\* Pending returns and failed flushes.
C12_ContiguousOnWire ==
    /\ \A i, j \in 1..Len(wire) :
         (i < j /\ wire[i][1] = wire[j][1]) =>
            \A k \in i..j : wire[k][1] = wire[i][1]
    /\ \A i \in 1..Len(wire) :
         IF i > 1 /\ wire[i - 1][1] = wire[i][1]
         THEN wire[i][2] = wire[i - 1][2] + 1
         ELSE wire[i][2] = 1
    /\ wire \o Unwritten(outbound) = Flatten([i \in 1..Len(enqueued) |-> AsBytes(enqueued[i])])

\* the second sender's message follows a first message whose flush went
\* through a Pending, both of more than one byte and fully written
C12_Witness ==
    /\ Len(enqueued) = 2
    /\ enqueued[1].len >= 2 /\ enqueued[2].len >= 2
    /\ Len(wire) = enqueued[1].len + enqueued[2].len
    /\ lastSend.id = enqueued[2].id /\ lastSend.pos > 0
    /\ \E t \in Tasks : task[t].pc = "flush"

\* C13 (as stated): of two send_message calls the one stamped with the
\* smaller serial is enqueued first and is on the wire first.
C13_SerialOrderOnWire ==
    /\ \A i, j \in 1..Len(enqueued) : i < j => enqueued[i].id < enqueued[j].id
    /\ \A i, j \in 1..Len(wire) : i < j => wire[i][1] <= wire[j][1]

\* the last call of try_receive_message saw the peer's close (a read of 0
\* bytes) and its outcome has just been handed to the consumer
CloseSeen == lastRead = 0 /\ ev.kind # "none" /\ ev.msg = NoMsg

\* C15 (as stated): when the peer closes the socket a stream() pull yields
\* None and no error, and a receive_specific that finds no match fails with
\* BrokenPipe.
C15_CloseEndsStream ==
    CloseSeen =>
        /\ ev.op = "stream" => ev.kind = "None"
        /\ ev.op = "receive_specific" => ev.kind = "BrokenPipe"

\* C18 (as stated): a stream() pull that finds messages queued yields the
\* oldest of them, so nothing still queued was received before the message
\* just yielded.
C18_StreamOldestFirst ==
    (ev.op = "stream" /\ ev.kind = "Ok") =>
        \A i \in 1..Len(incoming_queue) : incoming_queue[i].seq > ev.msg.seq

\* the predicate of the call whose outcome e records
PredOf(e) ==
    IF e.op = "call_method" THEN ReplyPredicate(e.serial)
    ELSE CHOOSE pred \in UserPredicates : TRUE

\* a receive_specific (or call_method) has just taken a message out of the queue
TakenFromQueue ==
    /\ ev'.op \in {"receive_specific", "call_method"}
    /\ Len(incoming_queue') < Len(incoming_queue)

\* C19: receive_specific returns the first queued message that satisfies
\* the predicate and removes exactly that element, the others keep their
\* order and nothing is read from the socket; a call that goes on to the
\* socket has found no queued match.
C19_FirstQueuedMatch ==
    /\ [](\A t \in Tasks :
            task[t].pc \in {"rs_raw", "rs_next"} => FirstMatch(incoming_queue, task[t].pred) = 0)
    /\ [][TakenFromQueue =>
            \E i \in 1..Len(incoming_queue) :
                /\ Matches(PredOf(ev'), incoming_queue[i])
                /\ \A j \in 1..(i - 1) : ~Matches(PredOf(ev'), incoming_queue[j])
                /\ ev'.msg = incoming_queue[i]
                /\ incoming_queue' = SubSeq(incoming_queue, 1, i - 1)
                                       \o SubSeq(incoming_queue, i + 1, Len(incoming_queue))
                /\ in_seq' = in_seq]_vars

\* a receive_specific took the older of two queued matches, behind a queued
\* message that does not match, and the younger match is still queued
C19_Witness ==
    /\ ev.op = "receive_specific"
    /\ ev.kind = "Ok"
    /\ \E i \in 1..Len(incoming_queue) :
         /\ Matches(PredOf(ev), incoming_queue[i])
         /\ incoming_queue[i].seq > ev.msg.seq
    /\ \E i \in 1..Len(incoming_queue) :
         /\ ~Matches(PredOf(ev), incoming_queue[i])
         /\ incoming_queue[i].seq < ev.msg.seq

\* C17: unique_name is set iff the connection is a bus connection whose
\* Hello call returned successfully: never for a non-bus connection; a bus
\* connection is returned only with unique_name holding the string Hello
\* returned; a failed Hello ends construction without a connection and
\* without a name; once set, the value never changes.
C17_UniqueNameIffHello ==
    /\ [](/\ ~bus_conn => unique_name = NoName
          /\ (bus_conn /\ newPc = "returned") => (unique_name \in Names /\ unique_name = helloReply)
          /\ unique_name # NoName => (bus_conn /\ newPc = "returned" /\ helloReply = unique_name)
          /\ newPc = "failed" => (unique_name = NoName /\ \A t \in Tasks : task[t] = NoTask))
    /\ [][unique_name # NoName => unique_name' = unique_name]_vars

\* a bus connection was returned with its name and has been used since
C17_Witness ==
    /\ bus_conn
    /\ newPc = "returned"
    /\ unique_name = ":1.42"
    /\ Len(handed) = 2

(***************************************************************************)
(* Third group of properties.                                              *)
(***************************************************************************)
\* C21 (as stated): when try_receive_message returns an error other than
\* Pending, the accumulation (buffer contents, pos, fds) is discarded, and
\* no later call on the connection returns a message.
C21_ErrorPoisons ==
    /\ (pcIn = "idle" /\ recvRes \in ErrorResults) =>
          (inbound.pos = 0 /\ inbound.buffer.data = <<>> /\ inbound.fds = <<>>)
    /\ recvErrs # {} => recvRes # "Ok"

\* the stream offset at which the i-th yielded message began
YieldedStart(i) == Len(Flatten(SubSeq(YieldedBytes, 1, i - 1)))

\* C24: the fds that arrive with the bytes of a frame, in whatever recv of
\* the header or the body phase and across Pending returns, are attached in
\* arrival order to the message made of that frame; those of the frame in
\* progress wait in inbound.fds, which is empty once the frame is returned.
C24_FdsFollowFrame ==
    /\ \A i \in 1..Len(yielded) :
         yielded[i].fds = FdsIn(sock.fdAt, YieldedStart(i), Len(yielded[i].bytes))
    /\ inbound.fds = FdsIn(sock.fdAt, Len(Flatten(YieldedBytes)), inbound.pos)
    /\ (pcIn = "idle" /\ recvRes = "Ok") => inbound.fds = <<>>

\* the first message got an fd with its header and one with its body; the
\* second message got none
C24_Witness ==
    /\ Len(yielded) = 2
    /\ yielded[1].fds = <<1, 18>>
    /\ yielded[2].fds = <<>>
    /\ inbound.fds = <<>>

\* C27: starting with an empty buffer, poll_recvmsg is offered at most
\* 16 - pos bytes in the header phase and total_len - pos bytes in the body
\* phase, so what was read from the socket is the yielded frames and pos
\* bytes of the frame in progress, never more than that frame; after a
\* message is returned pos is 0 and the buffer empty.
C27_FrameBoundary ==
    /\ pcIn = "header" => RecvRequest(inbound) <= MIN_MESSAGE_SIZE - inbound.pos
    /\ pcIn = "body" => RecvRequest(inbound) <= TotalLen(BufferedHeader) - inbound.pos
    /\ sock.off = Len(Flatten(YieldedBytes)) + inbound.pos
    /\ inbound.pos <= inbound.buffer.len
    /\ inbound.buffer.len \in {0, MIN_MESSAGE_SIZE} \/ inbound.buffer.len = TotalLen(BufferedHeader)
    /\ (pcIn = "idle" /\ recvRes = "Ok") =>
          (inbound.pos = 0 /\ inbound.buffer.len = 0 /\ inbound.buffer.data = <<>>)

\* the first frame was returned while bytes of the second were already there
\* to be read
C27_Witness ==
    /\ pcIn = "idle"
    /\ recvRes = "Ok"
    /\ Len(yielded) = 1
    /\ sock.off = Len(yielded[1].bytes)
    /\ sock.off < Len(sock.stream)

\* the bytes of all enqueued messages, in enqueue order
EnqueuedBytes == Flatten([i \in 1..Len(enqueued) |-> AsBytes(enqueued[i])])

\* a call has returned Pending and no other has been made yet
SendSuspended == pcOut = "idle" /\ flushRes = "Pending"
ReceiveSuspended == pcIn = "idle" /\ recvRes = "Pending"

\* C23: a step taken while a send (a receive) is suspended, be it the drop
\* of the future or the next call, by whichever task, keeps outbound.pos
\* and the head message (inbound.pos, the buffered bytes and fds); so the
\* bytes on the wire followed by the bytes still to be written stay the
\* enqueued messages in order, nothing repeated or left out, and the frame
\* in progress is completed into the message a single reading gives.
C23_CancelKeepsProgress ==
    /\ [](wire \o Unwritten(outbound) = EnqueuedBytes)
    /\ [](/\ Flatten(YieldedBytes) \o inbound.buffer.data = Take(sock.stream, sock.off)
          /\ YieldedBytes = Take(SingleShot(sock.stream), Len(yielded)))
    /\ [][SendSuspended =>
            /\ outbound'.pos = outbound.pos
            /\ wire' = wire
            /\ outbound.msgs # <<>>
            /\ outbound'.msgs # <<>>
            /\ Head(outbound'.msgs) = Head(outbound.msgs)]_vars
    /\ [][ReceiveSuspended =>
            /\ inbound'.pos = inbound.pos
            /\ inbound'.buffer.data = inbound.buffer.data
            /\ inbound'.fds = inbound.fds
            /\ sock' = sock]_vars

\* a send was dropped after a partial write and a later send_message wrote
\* the rest and its own message; a receive was dropped with one byte
\* buffered and the call now running has put the next byte behind it
C23_Witness ==
    /\ cancelled = {"send", "receive"}
    /\ flushRes = "Ok"
    /\ Len(enqueued) = 2
    /\ wire = EnqueuedBytes
    /\ pcIn = "header"
    /\ lastRead = 1
    /\ inbound.pos = 2
    /\ inbound.buffer.data = Take(sock.stream, 2)

\* a receive was dropped inside the frame and a later call returned the
\* whole frame
C23_ReceiveResumed ==
    /\ "receive" \in cancelled
    /\ recvRes = "Ok"
    /\ YieldedBytes = <<CancelFrame>>

\* task s is inside stream() with the inbound framer locked and waits for
\* the queue, task r is inside receive_specific (or call_method) with the
\* queue locked and waits for the inbound framer
Embrace(s, r) ==
    /\ task[s].pc = "st_queue" /\ lock["raw_in_conn"] = s
    /\ task[r].pc = "rs_raw" /\ lock["incoming_queue"] = r

\* C22: stream() takes the inbound framer and then the queue,
\* receive_specific the queue and then the inbound framer; once one task
\* holds the framer inside stream() and another the queue inside
\* receive_specific, neither can take a step any more and both guards stay
\* where they are, for ever.
C22_StreamReceiveDeadlock ==
    /\ [](\A s, r \in Tasks :
            (task[s].pc = "st_queue" /\ task[r].pc = "rs_raw") =>
                /\ Embrace(s, r)
                /\ ~ENABLED StreamLockQueue(s)
                /\ ~ENABLED LockRawIn(r))
    /\ [][\A s, r \in Tasks :
            Embrace(s, r) =>
                /\ task'[s] = task[s]
                /\ task'[r] = task[r]
                /\ lock'["raw_in_conn"] = s
                /\ lock'["incoming_queue"] = r]_vars

\* the two tasks in that state, the second one a call_method that has sent
\* its call and waits for the reply
C22_Witness ==
    \E s, r \in Tasks :
      /\ Embrace(s, r)
      /\ task[r].op = "call_method"
      /\ task[r].serial = 1

\* the mutex task t is about to lock ("none": it is not at a lock() call)
WaitsFor(t) ==
    CASE task[t].pc = "sink" -> SinkMutex
      [] task[t].pc = "rs_queue" -> "incoming_queue"
      [] task[t].pc = "rs_raw" -> "raw_in_conn"
      [] OTHER -> "none"

\* the task that keeps t waiting (0: nobody)
BlockedBy(t) == IF WaitsFor(t) = "none" THEN 0 ELSE lock[WaitsFor(t)]

\* the task reached from t after n links of the waits-for chain (0: the
\* chain has ended before)
RECURSIVE ChainEnd(_, _)
ChainEnd(t, n) ==
    IF t = 0 \/ n = 0 THEN t ELSE ChainEnd(BlockedBy(t), n - 1)

\* C26: without stream(), no reachable state has a cycle of tasks each
\* waiting for a mutex another one holds: every waits-for chain ends, at a
\* task inside an operation that can take its next step (the step that
\* waits for the socket, in receive_specific); no mutex is held by a task
\* that is between two calls.
C26_NoLockCycle ==
    \A t \in Tasks :
      /\ ChainEnd(t, NumTasks) = 0
      /\ \A n \in DOMAIN lock : lock[n] = t => task[t].pc # "idle"
      /\ (task[t].pc # "idle" /\ BlockedBy(t) = 0) =>
            \/ ENABLED NextSerialStore(t)
            \/ ENABLED SinkLock(t)
            \/ ENABLED SinkFlush(t)
            \/ ENABLED ScanQueue(t)
            \/ ENABLED LockRawIn(t)
            \/ ENABLED ReceiveFails(t)

\* a receive_specific waits for the queue, which a call_method holds while
\* it waits for the socket
C26_Witness ==
    \E r, q \in Tasks :
      /\ task[r].pc = "rs_next" /\ task[r].op = "call_method"
      /\ task[q].pc = "rs_queue" /\ task[q].op = "receive_specific"
      /\ BlockedBy(q) = r
      /\ BlockedBy(r) = 0

\* a call_method has sent the call with serial sn and waits for the reply
AwaitsReply(sn) ==
    \E t \in Tasks : /\ task[t].op = "call_method"
                     /\ task[t].serial = sn
                     /\ task[t].pc \in {"rs_queue", "rs_raw", "rs_next"}

\* the call with serial sn returns the reply that carries sn
ReplyReturned(sn) ==
    /\ ev.op = "call_method"
    /\ ev.serial = sn
    /\ ev.kind \in {"Ok", "MethodError"}
    /\ ev.msg.reply_serial = sn

====
